---- MODULE Spec2Model ----
(***************************************************************************)
(* TurboGet download engine (src/turbo_get/engine.py), as a state machine. *)
(*                                                                         *)
(* One engine is bound to one (url, output path).  The disk (destination   *)
(* file and .metadata sidecar) outlives the engine: a later engine for the *)
(* same path finds what an earlier one left.  Sizes and offsets are        *)
(* counted in blocks of iter_chunked(8192): one block is one unit.         *)
(*                                                                         *)
(* pause(), resume() and stop() are called from the GUI thread             *)
(* (main.py:191-204) while download() runs on its own thread               *)
(* (main.py:177-181), so a flag can change between any two steps of a      *)
(* worker: every read of is_paused / is_stopped starts a step of its own.  *)
(***************************************************************************)
EXTENDS Integers, Sequences, FiniteSets, TLC

\* ------------------------------------------------------------- bounds
MaxSize == 3            \* largest resource, in blocks
MaxWorkers == 2         \* largest num_threads given to the constructor
MaxRuns == 2            \* engines constructed, one after the other, on one path
MaxErrors == 1          \* Spec: transient error responses (a chunk that always fails is not counted)
MaxBodyFaults == 1      \* Spec: faulty response bodies
PlanMaxSize == 9        \* PlanSpec: largest total_size
PlanMaxWorkers == 6     \* PlanSpec: largest num_threads

\* ------------------------------------------------- program constants
max_retries == 5        \* download_chunk_with_retry(max_retries=5)
None == -1              \* ChunkInfo.thread_id = None

URLs == {1, 2}

\* The server's byte at offset o of the resource behind url u; never 0,
\* the byte preallocation leaves in the file.
Byte(u, o) == 10 * u + o

VARIABLES
    resource,           \* server: length of the resource, in blocks
    fexists, fdata,     \* disk: the destination file
    meta,               \* disk: the sidecar
    run,                \* which engine this is (1..MaxRuns)
    url, num_threads, total_size, downloaded_size, chunks, capabilities,
    is_paused, is_stopped,
    session,            \* "none" | "open" | "closed"
    monitor,            \* "none" | "running" | "cancelled"
    phase,              \* where download() stands
    workers,            \* worker id -> its position in download_worker
    verdict,            \* what verify_download reported
    prep,               \* what prepare_chunks did: "none" | "fresh" | "restored" | "discarded"
    fault,              \* the server or the file system has misbehaved during this run
    errsLeft,           \* server: transient error responses it may still give
    bodiesLeft,         \* server: faulty bodies it may still send
    dead,               \* server: chunks it answers with an error on every attempt
    hadFile,            \* the destination existed when this engine was constructed
    hadWhole,           \* ... and held the whole resource behind this engine's url
    probe,              \* how detect_capabilities ended: "none" | "ok" | "failed"
    exhausted,          \* chunks whose retry loop ran out (line 201)
    reported            \* chunks reported "failed after all retries" (line 158)

disk == <<fexists, fdata, meta>>
engine == <<url, num_threads, total_size, downloaded_size, chunks, capabilities,
            is_paused, is_stopped, session, monitor, phase, workers, verdict>>
server == <<resource, errsLeft, bodiesLeft, dead>>
history == <<prep, fault, hadFile, hadWhole, probe, exhausted, reported>>
vars == <<server, disk, run, engine, history>>

\* ------------------------------------------------------------ helpers
RECURSIVE SumDownloaded(_)
SumDownloaded(cs) ==
    IF cs = <<>> THEN 0 ELSE Head(cs).downloaded + SumDownloaded(Tail(cs))

ChunkLen(c) == c.end - c.start + 1

NewChunk(s, e) ==
    [start |-> s, end |-> e, downloaded |-> 0, completed |-> FALSE,
     retries |-> 0, thread_id |-> None]

NoMeta == [state |-> "absent", url |-> 0, total_size |-> 0, chunks |-> <<>>]
CorruptMeta == [state |-> "corrupt", url |-> 0, total_size |-> 0, chunks |-> <<>>]

DefaultCapabilities == [supports_range |-> FALSE, supports_resume |-> FALSE]

NewWorker ==
    [pc |-> "loop", chunk |-> 0, attempt |-> 0, fpos |-> 0,
     rpos |-> 0, rleft |-> 0, rfin |-> "eof",
     mid |-> FALSE, pw |-> 0, sw |-> 0, sc |-> 0,
     wait |-> 0, msgs |-> 0, pcl |-> 0]

\* WriteAt gone wrong: the write lands one block late.
WriteAt_OffByOne(f, p, v) ==
    IF p + 1 < Len(f)
    THEN [f EXCEPT ![p + 2] = v]
    ELSE f \o [i \in 1..(p + 1 - Len(f)) |-> 0] \o <<v>>

\* f.seek(p); f.write(v): p is 0-based; a seek past the end leaves a hole of zeros.
WriteAt(f, p, v) ==
    IF p < Len(f)
    THEN [f EXCEPT ![p + 1] = v]
    ELSE f \o [i \in 1..(p - Len(f)) |-> 0] \o <<v>>

\* PlanChunks gone wrong: the last chunk does not absorb the remainder.
PlanChunks_NoRemainder(ts, w, ranged) ==
    IF ranged /\ ts > 0
    THEN [i \in 1..w |->
            LET chunk_size == ts \div w
                st == (i - 1) * chunk_size
            IN  NewChunk(st, st + chunk_size - 1)]
    ELSE <<NewChunk(0, IF ts > 0 THEN ts - 1 ELSE -1)>>

\* prepare_chunks, lines 108-117: the plan when there is no sidecar.
PlanChunks(ts, w, ranged) ==
    IF ranged /\ ts > 0
    THEN [i \in 1..w |->
            LET chunk_size == ts \div w
                st == (i - 1) * chunk_size
            IN  NewChunk(st, IF i = w THEN ts - 1 ELSE st + chunk_size - 1)]
    ELSE <<NewChunk(0, IF ts > 0 THEN ts - 1 ELSE -1)>>

\* Claimable gone wrong: a chunk that has a claimant can be taken again.
Claimable_IgnoresClaimant(cs) ==
    {i \in 1..Len(cs) : ~cs[i].completed}

\* get_next_chunk, lines 206-210: the chunks a claim may take.
Claimable(cs) ==
    {i \in 1..Len(cs) : ~cs[i].completed /\ cs[i].thread_id = None}

\* ------------------------------------------------------- construction
\* __init__, lines 26-55; nothing is on disk before the first engine.
NewEngine(u, w) ==
    /\ url = u
    /\ num_threads = w
    /\ total_size = 0
    /\ downloaded_size = 0
    /\ chunks = <<>>
    /\ capabilities = DefaultCapabilities
    /\ is_paused = FALSE
    /\ is_stopped = FALSE
    /\ session = "none"
    /\ monitor = "none"
    /\ phase = "new"
    /\ workers = <<>>
    /\ verdict = "none"
    /\ prep = "none"
    /\ probe = "none"
    /\ fault = FALSE
    /\ exhausted = {}
    /\ reported = {}

InitWith(maxSize, maxWorkers, errs, bodies) ==
    /\ resource \in 1..maxSize
    /\ errsLeft = errs
    /\ bodiesLeft = bodies
    /\ dead = {}
    /\ fexists = FALSE
    /\ fdata = <<>>
    /\ meta = NoMeta
    /\ run = 1
    /\ hadFile = FALSE
    /\ hadWhole = FALSE
    /\ \E w \in 1..maxWorkers : NewEngine(1, w)

Init == InitWith(MaxSize, MaxWorkers, MaxErrors, MaxBodyFaults)

\* ------------------------------------------------------------- driver
\* initialize + detect_capabilities, lines 61-101.  The HEAD answer carries
\* Accept-Ranges ("bytes", "none" or absent) and maybe a length; a failed
\* probe leaves the defaults, total_size 0 and num_threads as constructed.
Initialize ==
    /\ phase = "new"
    /\ phase' = "initialized"
    /\ session' = "open"
    /\ \/ /\ capabilities' = DefaultCapabilities
          /\ probe' = "failed"
          /\ UNCHANGED <<total_size, num_threads>>
       \/ \E accept \in {"bytes", "none", "absent"}, haslen \in BOOLEAN :
            /\ capabilities' = [supports_range |-> accept = "bytes",
                                supports_resume |-> accept # "absent"]
            /\ probe' = "ok"
            /\ total_size' = IF haslen THEN resource ELSE 0
            /\ num_threads' = IF accept = "bytes" THEN num_threads ELSE 1
    /\ UNCHANGED <<server, disk, run, url, downloaded_size, chunks, is_paused,
                   is_stopped, monitor, workers, verdict, prep, fault, hadFile,
                   hadWhole, exhausted, reported>>

\* load_metadata, lines 273-290: does the sidecar pass the validation?
MetaMatches(m, u, ts) == m.url = u /\ m.total_size = ts

\* prepare_chunks, lines 103-117, with load_metadata, lines 273-290.
PrepareChunks ==
    /\ phase = "initialized"
    /\ phase' = "prepared"
    /\ IF meta.state # "absent"
       THEN IF meta.state = "valid" /\ MetaMatches(meta, url, total_size)
            THEN /\ chunks' = meta.chunks
                 /\ downloaded_size' = SumDownloaded(meta.chunks)
                 /\ prep' = "restored"
                 /\ UNCHANGED meta
            ELSE /\ meta' = NoMeta
                 /\ prep' = "discarded"
                 /\ UNCHANGED <<chunks, downloaded_size>>
       ELSE /\ chunks' = PlanChunks(total_size, num_threads, capabilities.supports_range)
            /\ prep' = "fresh"
            /\ UNCHANGED <<meta, downloaded_size>>
    /\ UNCHANGED <<server, fexists, fdata, run, url, num_threads, total_size,
                   capabilities, is_paused, is_stopped, session, monitor, workers,
                   verdict, fault, hadFile, hadWhole, probe, exhausted, reported>>

\* download, lines 125-132: preallocate, then spawn the workers and the monitor.
StartWorkers ==
    /\ phase = "prepared"
    /\ phase' = "running"
    /\ IF total_size > 0 /\ ~fexists
       THEN /\ fexists' = TRUE
            /\ fdata' = [i \in 1..total_size |-> 0]
       ELSE UNCHANGED <<fexists, fdata>>
    /\ workers' = [w \in 0..(num_threads - 1) |-> NewWorker]
    /\ monitor' = "running"
    /\ UNCHANGED <<server, meta, run, url, num_threads, total_size, downloaded_size,
                   chunks, capabilities, is_paused, is_stopped, session, verdict,
                   history>>

\* download, lines 126-129 and 138-141: open(output_path, 'wb') raises OSError
\* (no such directory, no permission, disk full).  The finally block runs
\* with monitor_task unbound: line 139 raises UnboundLocalError and line 141
\* is not reached.
PreallocateFails ==
    /\ phase = "prepared"
    /\ total_size > 0 /\ ~fexists
    /\ phase' = "raised"
    /\ fault' = TRUE
    /\ UNCHANGED <<server, disk, run, url, num_threads, total_size, downloaded_size,
                   chunks, capabilities, is_paused, is_stopped, session, monitor,
                   workers, verdict, prep, hadFile, hadWhole, probe, exhausted, reported>>

\* verify_download, lines 292-315: what it reports.
Verify ==
    IF ~fexists THEN "notfound"
    ELSE IF total_size > 0 /\ Len(fdata) # total_size THEN "mismatch"
    ELSE "ok"

\* Finish gone wrong: the verifier runs although stop was requested.
Finish_VerifiesAfterStop ==
    /\ phase = "running"
    /\ \A w \in DOMAIN workers : workers[w].pc = "done"
    /\ phase' = "returned"
    /\ verdict' = Verify
    /\ meta' = IF Verify = "ok" THEN NoMeta ELSE meta
    /\ monitor' = "cancelled"
    /\ session' = "closed"
    /\ UNCHANGED <<server, fexists, fdata, run, url, num_threads, total_size,
                   downloaded_size, chunks, capabilities, is_paused, is_stopped,
                   workers, history>>

\* Finish gone wrong: the sidecar is deleted whatever the verifier reports.
Finish_AlwaysDeletes ==
    /\ phase = "running"
    /\ \A w \in DOMAIN workers : workers[w].pc = "done"
    /\ phase' = "returned"
    /\ IF is_stopped
       THEN UNCHANGED <<verdict, meta>>
       ELSE /\ verdict' = Verify
            /\ meta' = NoMeta
    /\ monitor' = "cancelled"
    /\ session' = "closed"
    /\ UNCHANGED <<server, fexists, fdata, run, url, num_threads, total_size,
                   downloaded_size, chunks, capabilities, is_paused, is_stopped,
                   workers, history>>

\* download, lines 134-141: every worker has returned; verify unless stopped;
\* then the finally block.
Finish ==
    /\ phase = "running"
    /\ \A w \in DOMAIN workers : workers[w].pc = "done"
    /\ phase' = "returned"
    /\ IF is_stopped
       THEN UNCHANGED <<verdict, meta>>
       ELSE /\ verdict' = Verify
            /\ meta' = IF Verify = "ok" THEN NoMeta ELSE meta
    /\ monitor' = "cancelled"
    /\ session' = "closed"
    /\ UNCHANGED <<server, fexists, fdata, run, url, num_threads, total_size,
                   downloaded_size, chunks, capabilities, is_paused, is_stopped,
                   workers, history>>

\* download, lines 134 and 138-141: a worker raised, gather re-raises, the finally
\* block runs and asyncio.run cancels the tasks that are left.
Abort ==
    /\ phase = "running"
    /\ \E w \in DOMAIN workers : workers[w].pc = "crashed"
    /\ phase' = "raised"
    /\ monitor' = "cancelled"
    /\ session' = "closed"
    /\ workers' = [w \in DOMAIN workers |->
                     IF workers[w].pc \in {"done", "crashed"} THEN workers[w]
                     ELSE [workers[w] EXCEPT !.pc = "cancelled"]]
    /\ UNCHANGED <<server, disk, run, url, num_threads, total_size, downloaded_size,
                   chunks, capabilities, is_paused, is_stopped, verdict, history>>

\* ----------------------------------------------------- control surface
Alive == phase \in {"new", "initialized", "prepared", "running"}

\* pause, lines 240-242.  A second pause() changes nothing, so it is left out.
\* Each worker's record notes whether pause() found it streaming a body (mid)
\* and counts the blocks it writes (pw) and the chunks it claims (pcl) while
\* the flag stays set.
Pause ==
    /\ Alive /\ ~is_paused
    /\ is_paused' = TRUE
    /\ workers' = [w \in DOMAIN workers |->
                     [workers[w] EXCEPT !.pw = 0, !.pcl = 0,
                                        !.mid = workers[w].pc \in {"stream", "write"}]]
    /\ UNCHANGED <<server, disk, run, url, num_threads, total_size, downloaded_size,
                   chunks, capabilities, is_stopped, session, monitor, phase, verdict,
                   history>>

\* resume, lines 244-246.
Resume ==
    /\ Alive /\ is_paused
    /\ is_paused' = FALSE
    /\ workers' = [w \in DOMAIN workers |-> [workers[w] EXCEPT !.pw = 0, !.pcl = 0, !.mid = FALSE]]
    /\ UNCHANGED <<server, disk, run, url, num_threads, total_size, downloaded_size,
                   chunks, capabilities, is_stopped, session, monitor, phase, verdict,
                   history>>

\* stop, lines 248-250.
Stop ==
    /\ Alive /\ ~is_stopped
    /\ is_stopped' = TRUE
    /\ UNCHANGED <<server, disk, run, url, num_threads, total_size, downloaded_size,
                   chunks, capabilities, is_paused, session, monitor, phase, workers,
                   verdict, history>>

\* ------------------------------------------------------------ workers
Running(w) == phase = "running" /\ w \in DOMAIN workers

SetWorker(w, rec) == workers' = [workers EXCEPT ![w] = rec]

\* The counters of the worker records stop at 2.
Bump(n) == IF n < 2 THEN n + 1 ELSE 2

\* download_worker, line 145: while not self.is_stopped.
WorkerLoop(w) ==
    /\ Running(w) /\ workers[w].pc = "loop"
    /\ SetWorker(w, [workers[w] EXCEPT !.pc = IF is_stopped THEN "done" ELSE "pausechk"])
    /\ UNCHANGED <<server, disk, run, url, num_threads, total_size, downloaded_size,
                   chunks, capabilities, is_paused, is_stopped, session, monitor, phase,
                   verdict, history>>

\* PauseCheck gone wrong: the pause flag is not looked at.
PauseCheck_Ignores(w) ==
    /\ Running(w) /\ workers[w].pc = "pausechk"
    /\ SetWorker(w, [workers[w] EXCEPT !.pc = "claim"])
    /\ UNCHANGED <<server, disk, run, url, num_threads, total_size, downloaded_size,
                   chunks, capabilities, is_paused, is_stopped, session, monitor, phase,
                   verdict, history>>

\* download_worker, line 146: while self.is_paused.
PauseCheck(w) ==
    /\ Running(w) /\ workers[w].pc = "pausechk"
    /\ SetWorker(w, [workers[w] EXCEPT !.pc = IF is_paused THEN "sleeping" ELSE "claim"])
    /\ UNCHANGED <<server, disk, run, url, num_threads, total_size, downloaded_size,
                   chunks, capabilities, is_paused, is_stopped, session, monitor, phase,
                   verdict, history>>

\* download_worker, lines 147-148: the 100 ms sleep ends; if self.is_stopped: return.
PauseSleep(w) ==
    /\ Running(w) /\ workers[w].pc = "sleeping"
    /\ SetWorker(w, [workers[w] EXCEPT !.pc = IF is_stopped THEN "done" ELSE "pausechk"])
    /\ UNCHANGED <<server, disk, run, url, num_threads, total_size, downloaded_size,
                   chunks, capabilities, is_paused, is_stopped, session, monitor, phase,
                   verdict, history>>

\* get_next_chunk, lines 203-210: the first chunk in vector order that is not
\* completed and has no claimant.
NextChunk(cs) ==
    IF Claimable(cs) = {} THEN 0
    ELSE CHOOSE i \in Claimable(cs) : \A j \in Claimable(cs) : i <= j

\* download_worker, lines 150-152.
Claim(w) ==
    /\ Running(w) /\ workers[w].pc = "claim"
    /\ LET i == NextChunk(chunks) IN
         IF i = 0
         THEN /\ SetWorker(w, [workers[w] EXCEPT !.pc = "done"])
              /\ UNCHANGED chunks
         ELSE /\ chunks' = [chunks EXCEPT ![i].thread_id = w]
              /\ SetWorker(w, [workers[w] EXCEPT
                                 !.pc = "attempt", !.chunk = i, !.attempt = 0,
                                 !.sc = IF is_stopped THEN Bump(@) ELSE @,
                                 !.pcl = IF is_paused THEN Bump(@) ELSE @])
    /\ UNCHANGED <<server, disk, run, url, num_threads, total_size, downloaded_size,
                   capabilities, is_paused, is_stopped, session, monitor, phase,
                   verdict, history>>

\* download_chunk_with_retry has returned and download_worker goes back to
\* line 145.  When it returned False (lines 164, 180, 201), line 158 reports
\* the chunk as failed after all retries: the steps that do so add it to
\* reported.
GiveUp(rec) ==
    [rec EXCEPT !.pc = "loop", !.chunk = 0, !.attempt = 0, !.fpos = 0,
                !.rpos = 0, !.rleft = 0, !.rfin = "eof", !.wait = 0, !.msgs = 0]

\* download_chunk_with_retry, lines 164-170: the stop check, then the offsets
\* of this attempt.
Attempt(w) ==
    /\ Running(w) /\ workers[w].pc = "attempt"
    /\ LET c == chunks[workers[w].chunk] IN
         SetWorker(w, IF is_stopped
                      THEN GiveUp(workers[w])
                      ELSE [workers[w] EXCEPT !.pc = "request",
                                              !.fpos = c.start + c.downloaded])
    /\ reported' = IF is_stopped THEN reported \cup {workers[w].chunk} ELSE reported
    /\ UNCHANGED <<server, disk, run, url, num_threads, total_size, downloaded_size,
                   chunks, capabilities, is_paused, is_stopped, session, monitor, phase,
                   verdict, prep, fault, hadFile, hadWhole, probe, exhausted>>

\* line 170: a Range header is sent iff range is supported and start <= end.
SendsRange(c, st) == capabilities.supports_range /\ st <= c.end

\* The body a server that honours the request sends: <<first offset, length>>.
HonestBody(c, st) ==
    IF SendsRange(c, st) THEN <<st, c.end - st + 1>> ELSE <<0, resource>>

\* line 197: wait_time = min(2 ** attempt, 30).
WaitTime(attempt) == IF 2 ^ attempt < 30 THEN 2 ^ attempt ELSE 30

\* Failed gone wrong: the failure is not counted on the chunk.
Failed_NoCount(w) ==
    /\ UNCHANGED chunks
    /\ SetWorker(w, [workers[w] EXCEPT !.pc = "backoff", !.rpos = 0, !.rleft = 0,
                                       !.rfin = "eof", !.msgs = @ + 1,
                                       !.wait = WaitTime(workers[w].attempt)])

\* Failed gone wrong: the chunk's progress is thrown away.
Failed_ResetsProgress(w) ==
    /\ chunks' = [chunks EXCEPT ![workers[w].chunk].retries = @ + 1,
                                ![workers[w].chunk].downloaded = 0]
    /\ SetWorker(w, [workers[w] EXCEPT !.pc = "backoff", !.rpos = 0, !.rleft = 0,
                                       !.rfin = "eof", !.msgs = @ + 1,
                                       !.wait = WaitTime(workers[w].attempt)])

\* lines 195-199: the except clause: the failure is counted on the chunk, one
\* status message is sent (msgs counts those of the call) and the sleep begins.
Failed(w) ==
    /\ chunks' = [chunks EXCEPT ![workers[w].chunk].retries = @ + 1]
    /\ SetWorker(w, [workers[w] EXCEPT !.pc = "backoff", !.rpos = 0, !.rleft = 0,
                                       !.rfin = "eof", !.msgs = @ + 1,
                                       !.wait = WaitTime(workers[w].attempt)])

\* The bodies the server may send for a request: <<first offset, length, how it
\* ends, whether that is a fault>>.  The one asked for; or, while it has faulty
\* bodies left, the whole resource although a range was asked for, or a body that
\* stops short, with a normal end or with a network error.
Bodies(c, st) ==
    LET hb == HonestBody(c, st) IN
    {<<hb[1], hb[2], "eof", FALSE>>}
    \cup (IF bodiesLeft > 0
          THEN (IF SendsRange(c, st) THEN {<<0, resource, "eof", TRUE>>} ELSE {})
               \cup {<<hb[1], n, fin, TRUE>> :
                       n \in 0..(hb[2] - 1), fin \in {"eof", "err"}}
          ELSE {})

\* download_chunk_with_retry, lines 172-178: the response arrives.  It is an
\* error (a status other than 200/206, no connection, a timeout): a transient
\* one, or the first or a later one of a chunk the server always fails.  Or it
\* is a body; with a body in hand the destination is opened 'r+b', which
\* raises FileNotFoundError when it does not exist.
Respond(w) ==
    /\ Running(w) /\ workers[w].pc = "request"
    /\ LET i == workers[w].chunk
           c == chunks[i]
           st == workers[w].fpos
       IN
       \/ /\ i \notin dead /\ errsLeft > 0
          /\ errsLeft' = errsLeft - 1
          /\ Failed(w)
          /\ fault' = TRUE
          /\ UNCHANGED <<resource, bodiesLeft, dead, prep, hadFile, hadWhole, probe, exhausted, reported>>
       \/ /\ i \in dead \/ workers[w].attempt = 0
          /\ dead' = dead \cup {i}
          /\ Failed(w)
          /\ fault' = TRUE
          /\ UNCHANGED <<resource, errsLeft, bodiesLeft, prep, hadFile, hadWhole, probe, exhausted, reported>>
       \/ /\ i \notin dead
          /\ \E body \in Bodies(c, st) :
               /\ fault' = (fault \/ body[4])
               /\ bodiesLeft' = IF body[4] THEN bodiesLeft - 1 ELSE bodiesLeft
               /\ SetWorker(w, IF fexists
                               THEN [workers[w] EXCEPT !.pc = "stream", !.rpos = body[1],
                                                       !.rleft = body[2], !.rfin = body[3]]
                               ELSE [workers[w] EXCEPT !.pc = "crashed"])
          /\ UNCHANGED <<resource, errsLeft, dead, chunks, prep, hadFile, hadWhole, probe, exhausted, reported>>
    /\ UNCHANGED <<disk, run, url, num_threads, total_size, downloaded_size,
                   capabilities, is_paused, is_stopped, session, monitor, phase,
                   verdict>>

\* Stream gone wrong: the stop check of line 180 is missing.
Stream_NoStopCheck(w) ==
    /\ Running(w) /\ workers[w].pc = "stream"
    /\ IF workers[w].rleft > 0
       THEN /\ SetWorker(w, [workers[w] EXCEPT !.pc = "write"])
            /\ UNCHANGED chunks
       ELSE IF workers[w].rfin = "eof"
            THEN /\ chunks' = [chunks EXCEPT ![workers[w].chunk].completed = TRUE]
                 /\ SetWorker(w, [workers[w] EXCEPT !.pc = "save"])
            ELSE Failed(w)
    /\ UNCHANGED <<server, disk, run, url, num_threads, total_size, downloaded_size,
                   capabilities, is_paused, is_stopped, session, monitor, phase,
                   verdict, history>>

\* lines 179-180 and 192-199: the next event of the body.  A block: the stop
\* check of line 180.  The normal end: line 192 marks the chunk completed.
\* A network error: the except clause.
Stream(w) ==
    /\ Running(w) /\ workers[w].pc = "stream"
    /\ IF workers[w].rleft > 0
       THEN /\ SetWorker(w, IF is_stopped THEN GiveUp(workers[w])
                            ELSE [workers[w] EXCEPT !.pc = "write"])
            /\ reported' = IF is_stopped THEN reported \cup {workers[w].chunk}
                           ELSE reported
            /\ UNCHANGED chunks
       ELSE /\ IF workers[w].rfin = "eof"
               THEN /\ chunks' = [chunks EXCEPT ![workers[w].chunk].completed = TRUE]
                    /\ SetWorker(w, [workers[w] EXCEPT !.pc = "save"])
               ELSE Failed(w)
            /\ UNCHANGED reported
    /\ UNCHANGED <<server, disk, run, url, num_threads, total_size, downloaded_size,
                   capabilities, is_paused, is_stopped, session, monitor, phase,
                   verdict, prep, fault, hadFile, hadWhole, probe, exhausted>>

\* Write gone wrong: the block is not added to downloaded_size.
Write_SkipsTotal(w) ==
    /\ Running(w) /\ workers[w].pc = "write"
    /\ fdata' = WriteAt(fdata, workers[w].fpos, Byte(url, workers[w].rpos))
    /\ chunks' = [chunks EXCEPT ![workers[w].chunk].downloaded = @ + 1]
    /\ SetWorker(w, [workers[w] EXCEPT
                       !.pc = "stream", !.fpos = @ + 1, !.rpos = @ + 1, !.rleft = @ - 1,
                       !.pw = IF is_paused THEN Bump(@) ELSE @,
                       !.sw = IF is_stopped THEN Bump(@) ELSE @])
    /\ UNCHANGED <<server, fexists, meta, run, url, num_threads, total_size,
                   downloaded_size, capabilities, is_paused, is_stopped, session,
                   monitor, phase, verdict, history>>

\* lines 182-190: the rate-limit sleep if any, then the block is written and counted.
Write(w) ==
    /\ Running(w) /\ workers[w].pc = "write"
    /\ fdata' = WriteAt(fdata, workers[w].fpos, Byte(url, workers[w].rpos))
    /\ chunks' = [chunks EXCEPT ![workers[w].chunk].downloaded = @ + 1]
    /\ downloaded_size' = downloaded_size + 1
    /\ SetWorker(w, [workers[w] EXCEPT
                       !.pc = "stream", !.fpos = @ + 1, !.rpos = @ + 1, !.rleft = @ - 1,
                       !.pw = IF is_paused THEN Bump(@) ELSE @,
                       !.sw = IF is_stopped THEN Bump(@) ELSE @])
    /\ UNCHANGED <<server, fexists, meta, run, url, num_threads, total_size,
                   capabilities, is_paused, is_stopped, session, monitor, phase,
                   verdict, history>>

\* line 199 and back to line 162: the backoff sleep ends; the next attempt, or
\* line 201 when none is left.
Backoff(w) ==
    /\ Running(w) /\ workers[w].pc = "backoff"
    /\ IF workers[w].attempt + 1 < max_retries
       THEN /\ SetWorker(w, [workers[w] EXCEPT !.pc = "attempt", !.attempt = @ + 1,
                                              !.wait = 0])
            /\ UNCHANGED <<exhausted, reported>>
       ELSE /\ SetWorker(w, GiveUp(workers[w]))
            /\ exhausted' = exhausted \cup {workers[w].chunk}
            /\ reported' = reported \cup {workers[w].chunk}
    /\ UNCHANGED <<server, disk, run, url, num_threads, total_size, downloaded_size,
                   chunks, capabilities, is_paused, is_stopped, session, monitor, phase,
                   verdict, prep, fault, hadFile, hadWhole, probe>>

\* save_metadata, lines 255-271: the sidecar that is written.
Sidecar == [state |-> "valid", url |-> url, total_size |-> total_size, chunks |-> chunks]

\* Save gone wrong: the sidecar is written whether or not resume is supported.
Save_Unconditional(w) ==
    /\ Running(w) /\ workers[w].pc = "save"
    /\ meta' = [state |-> "valid", url |-> url, total_size |-> total_size,
                chunks |-> chunks]
    /\ SetWorker(w, GiveUp(workers[w]))
    /\ UNCHANGED <<server, fexists, fdata, run, url, num_threads, total_size,
                   downloaded_size, chunks, capabilities, is_paused, is_stopped, session,
                   monitor, phase, verdict, history>>

\* download_worker, lines 155-156: the chunk succeeded; save, back to line 145.
Save(w) ==
    /\ Running(w) /\ workers[w].pc = "save"
    /\ meta' = IF capabilities.supports_resume THEN Sidecar ELSE meta
    /\ SetWorker(w, GiveUp(workers[w]))
    /\ UNCHANGED <<server, fexists, fdata, run, url, num_threads, total_size,
                   downloaded_size, chunks, capabilities, is_paused, is_stopped, session,
                   monitor, phase, verdict, history>>

\* ------------------------------------------------------ the next engine
\* The process ends (download() is over, or the process is killed) and a new
\* engine is constructed for the same path: memory is lost, the disk stays.
\* A kill that lands inside save_metadata, between open(..., 'w') and the
\* end of json.dump, leaves a sidecar that does not parse.
Restart ==
    /\ run < MaxRuns
    /\ run' = run + 1
    /\ hadFile' = fexists
    /\ probe' = "none"
    /\ \/ UNCHANGED meta
       \/ /\ capabilities.supports_resume
          /\ \E w \in DOMAIN workers : phase = "running" /\ workers[w].pc = "save"
          /\ meta' = CorruptMeta
    /\ url' \in URLs
    /\ hadWhole' = (fexists /\ fdata = [o \in 1..resource |-> Byte(url', o - 1)])
    /\ num_threads' \in 1..MaxWorkers
    /\ total_size' = 0
    /\ downloaded_size' = 0
    /\ chunks' = <<>>
    /\ capabilities' = DefaultCapabilities
    /\ is_paused' = FALSE
    /\ is_stopped' = FALSE
    /\ session' = "none"
    /\ monitor' = "none"
    /\ phase' = "new"
    /\ workers' = <<>>
    /\ verdict' = "none"
    /\ prep' = "none"
    /\ fault' = FALSE
    /\ dead' = {}
    /\ exhausted' = {}
    /\ reported' = {}
    /\ UNCHANGED <<resource, errsLeft, bodiesLeft, fexists, fdata>>

WorkerStep(w) ==
    \/ WorkerLoop(w) \/ PauseCheck(w) \/ PauseSleep(w) \/ Claim(w) \/ Attempt(w)
    \/ Respond(w) \/ Stream(w) \/ Write(w) \/ Backoff(w) \/ Save(w)

Control == Pause \/ Resume \/ Stop

Driver == Initialize \/ PrepareChunks \/ StartWorkers \/ PreallocateFails \/ Finish \/ Abort

\* One engine, with everything the server and the caller can do to it.
Next ==
    \/ Driver
    \/ Control
    \/ \E w \in 0..(MaxWorkers - 1) : WorkerStep(w)

Spec == Init /\ [][Next]_vars

\* One engine after the other on the same path (the process can be killed at
\* any point), on a server whose only fault is to fail a chunk for good.
InitResume == InitWith(MaxSize, MaxWorkers, 0, 0)

NextResume ==
    \/ Driver
    \/ Control
    \/ \E w \in 0..(MaxWorkers - 1) : WorkerStep(w)
    \/ Restart

ResumeSpec == InitResume /\ [][NextResume]_vars

\* The planner on its own, over a wider range of sizes and worker counts.
InitPlan == InitWith(PlanMaxSize, PlanMaxWorkers, 0, 0)

NextPlan == Initialize \/ PrepareChunks

PlanSpec == InitPlan /\ [][NextPlan]_vars

\* One engine whose server answers with errors but sends no faulty body.
\* Every scheduled task gets to run, every sleep ends, and every request is
\* answered or times out (connect 30 s, sock_read 30 s: line 65).
InitFair == InitWith(MaxSize, MaxWorkers, MaxErrors, 0)

FairSpec ==
    /\ InitFair /\ [][Next]_vars
    /\ WF_vars(Driver)
    /\ \A w \in 0..(MaxWorkers - 1) : WF_vars(WorkerStep(w))

\* ---------------------------------------------------------------------
\* Properties
\* ---------------------------------------------------------------------
Offsets(c) == c.start .. c.end

AllCompleted == \A i \in 1..Len(chunks) : chunks[i].completed

Ended == phase \in {"returned", "raised"}

\* The destination holds the whole resource and nothing else.
FileIsResource ==
    /\ fexists
    /\ Len(fdata) = total_size
    /\ \A o \in 0..(total_size - 1) : fdata[o + 1] = Byte(url, o)

\* Section 8, properties 2 and 3.
Disjoint(cs) ==
    \A i, j \in 1..Len(cs) :
        i # j => (cs[i].end < cs[j].start \/ cs[j].end < cs[i].start)

RECURSIVE SumLen(_)
SumLen(cs) == IF cs = <<>> THEN 0 ELSE ChunkLen(Head(cs)) + SumLen(Tail(cs))

Covers(cs, ts) ==
    /\ SumLen(cs) = ts
    /\ UNION {Offsets(cs[i]) : i \in 1..Len(cs)} = 0..(ts - 1)

\* C1: a run that restored its chunks (each a proper range) from a matching
\* sidecar, on a well-behaved server and without stop, ends with every chunk
\* completed (every chunk restored incomplete was claimed and fetched) and
\* with the sidecar deleted.
C1_ResumeCompletes ==
    (/\ phase = "returned" /\ prep = "restored" /\ ~fault /\ ~is_stopped
     /\ \A i \in 1..Len(chunks) : chunks[i].start <= chunks[i].end)
        => (AllCompleted /\ meta.state = "absent")

\* C2: when the sidecar is discarded at load, it is deleted and the chunk
\* vector is the plan that is produced when no sidecar exists.
C2_DiscardPlansAfresh ==
    prep = "discarded"
        => /\ meta.state = "absent"
           /\ chunks = PlanChunks(total_size, num_threads, capabilities.supports_range)

\* C3 (the states): a fresh run (no sidecar, no destination) with range
\* support and total_size > 0, on a server that makes no fault, keeps its
\* chunk vector disjoint and covering [0, total_size-1] in every state, never
\* raises, and when it returns without stop every chunk is completed, the
\* destination has total_size blocks, each the server's, the verifier said so
\* and the sidecar is gone.
C3_Fresh ==
    prep = "fresh" /\ ~hadFile /\ capabilities.supports_range /\ total_size > 0 /\ ~fault

C3_FreshRunStates ==
    C3_Fresh =>
        /\ Disjoint(chunks) /\ Covers(chunks, total_size)
        /\ phase # "raised"
        /\ (phase = "returned" /\ ~is_stopped)
              => (AllCompleted /\ FileIsResource /\ verdict = "ok"
                  /\ meta.state = "absent")

\* C3: a fresh run against a server that supports ranges and honours every
\* request, with total_size > 0: the disjoint/cover invariants hold in every
\* state, and unless it is paused or stopped the run ends, with every chunk
\* completed, the destination equal to the resource and the sidecar absent.
C3_FreshRunCompletes ==
    /\ []C3_FreshRunStates
    /\ (C3_Fresh /\ phase = "prepared")
          ~> (phase = "returned" \/ is_paused \/ is_stopped \/ fault)

C3_Witness ==
    /\ C3_Fresh /\ phase = "returned" /\ ~is_stopped
    /\ num_threads = 2 /\ total_size = 3
    /\ AllCompleted /\ FileIsResource

\* C4: when a chunk fails on every attempt while the other chunks succeed, at
\* the end of the run that chunk is incomplete, the sidecar exists and records
\* it as incomplete, and the verifier reports a size mismatch.
C4_PermanentFailureReported ==
    \A i \in exhausted \cap dead :
        (/\ phase = "returned" /\ ~is_stopped
         /\ capabilities.supports_range /\ total_size > 0 /\ Len(chunks) > 1
         /\ \A j \in 1..Len(chunks) : chunks[j].start <= chunks[j].end
         /\ \A j \in 1..Len(chunks) : j # i => chunks[j].completed)
        => /\ ~chunks[i].completed
           /\ meta.state = "valid" /\ ~meta.chunks[i].completed
           /\ verdict = "mismatch"

\* C5: with range support, total_size > 0 and no sidecar the planner makes
\* exactly num_threads chunks, chunk i (from 0) starts at i * (total_size div
\* num_threads), the chunks are pairwise disjoint, their lengths add up to
\* total_size and their union is [0, total_size-1].
C5_PlanPartitions ==
    (prep = "fresh" /\ capabilities.supports_range /\ total_size > 0)
        => /\ Len(chunks) = num_threads
           /\ \A i \in 1..Len(chunks) :
                chunks[i].start = (i - 1) * (total_size \div num_threads)
           /\ \A i, j \in 1..Len(chunks) :
                i # j => Offsets(chunks[i]) \cap Offsets(chunks[j]) = {}
           /\ Covers(chunks, total_size)

C5_Witness ==
    /\ prep = "fresh" /\ capabilities.supports_range
    /\ total_size = 8 /\ num_threads = 3
    /\ chunks[3].start = 4 /\ chunks[3].end = 7

\* C6: in every state, for every chunk, downloaded <= end - start + 1.
C6_DownloadedWithinChunk ==
    \A i \in 1..Len(chunks) : chunks[i].downloaded <= ChunkLen(chunks[i])

\* C7: in every state, a completed chunk with a known range (end >= start)
\* has downloaded = end - start + 1.
C7_CompletedMeansFull ==
    \A i \in 1..Len(chunks) :
        (chunks[i].completed /\ chunks[i].end >= chunks[i].start)
            => chunks[i].downloaded = ChunkLen(chunks[i])

\* C8: every chunk of every plan made for total_size > 0 has start <= end,
\* for every worker count, also one greater than total_size.
C8_PlanStartLeEnd ==
    (prep = "fresh" /\ total_size > 0)
        => \A i \in 1..Len(chunks) : chunks[i].start <= chunks[i].end

\* C9: after pause(), while the pause flag stays set, a worker that was in the
\* middle of streaming a chunk writes at most one further block.
C9_PauseStopsWrites ==
    \A w \in DOMAIN workers : workers[w].mid => workers[w].pw <= 1

C10_StopStates ==
    /\ \A w \in DOMAIN workers : workers[w].sw <= 1 /\ workers[w].sc <= 1
    /\ \A w \in DOMAIN workers :
         (is_stopped /\ workers[w].sc = 1) => workers[w].pc \notin {"request", "stream", "write"}
    /\ (Ended /\ is_stopped /\ DOMAIN workers # {})
          => (monitor = "cancelled" /\ session = "closed"
              /\ \A w \in DOMAIN workers : workers[w].pc \in {"done", "crashed", "cancelled"})

C11_CleanupOnExit ==
    Ended => (session # "open" /\ monitor # "running")

\* C12: once the workers have been spawned, download() does not raise to its
\* caller, whatever the server does and whatever the state of the destination.
C12_NoRaiseAfterSpawn ==
    DOMAIN workers # {} => phase # "raised"

\* min(2^k, 30) for k = 0..4, written out.
C13_Waits == <<1, 2, 4, 8, 16>>

C13_RetryStates ==
    /\ \A i \in 1..Len(chunks) : chunks[i].retries <= max_retries
    /\ \A i \in exhausted : chunks[i].retries = max_retries /\ ~chunks[i].completed
    /\ \A w \in DOMAIN workers :
         LET r == workers[w] IN
         r.chunk # 0 =>
            LET c == chunks[r.chunk] IN
            /\ r.attempt \in 0..(max_retries - 1)
            /\ r.msgs = c.retries
            /\ r.pc = "backoff" => /\ c.retries = r.attempt + 1
                                   /\ r.wait = C13_Waits[r.attempt + 1]
                                   /\ ~c.completed
            /\ r.pc \in {"attempt", "request", "stream", "write", "save"}
                  => c.retries = r.attempt
            /\ r.pc = "save" => c.completed

\* C13: for one chunk at most 5 attempts are made (attempt k = 0..4); each
\* failed attempt k adds exactly 1 to chunk.retries, sends exactly one status
\* message and waits min(2^k, 30) seconds; a chunk that succeeds after
\* failures is completed with retries equal to the number of failures; after
\* the fifth failure the chunk has retries = 5 and completed = false.
C13_RetryLadder == []C13_RetryStates

C13_Witness ==
    /\ \E i \in exhausted : chunks[i].retries = max_retries /\ ~chunks[i].completed
    /\ \E j \in 1..Len(chunks) : chunks[j].retries = 1 /\ chunks[j].completed

\* C14: when stop() has ended a run and supports_resume is true, the sidecar
\* on disk records every chunk's downloaded count and completed flag as they
\* are at shutdown.
C14_SidecarAtShutdown ==
    (/\ phase = "returned" /\ is_stopped /\ DOMAIN workers # {}
     /\ capabilities.supports_resume)
        => /\ meta.state = "valid"
           /\ Len(meta.chunks) = Len(chunks)
           /\ \A i \in 1..Len(chunks) :
                /\ meta.chunks[i].downloaded = chunks[i].downloaded
                /\ meta.chunks[i].completed = chunks[i].completed

C15_VerifyStep ==
    /\ (phase = "running" /\ phase' = "returned" /\ ~is_stopped)
          => /\ verdict' = "ok" <=> (fexists /\ (total_size > 0 => Len(fdata) = total_size))
             /\ verdict' = "notfound" <=> ~fexists
             /\ IF verdict' = "ok" THEN meta'.state = "absent" ELSE meta' = meta
    /\ meta.state = "valid" /\ meta'.state = "absent"
          => \/ phase = "running" /\ phase' = "returned" /\ verdict' = "ok"
             \/ phase = "initialized" /\ ~MetaMatches(meta, url, total_size)
    /\ fexists => (fexists' /\ Len(fdata') >= Len(fdata))

\* C15: the verifier deletes the sidecar exactly when it reports success; when
\* the destination is missing, or total_size > 0 and the size on disk differs,
\* it reports the failure and leaves the sidecar as it is; no step of the
\* engine deletes or shortens the destination.
C15_SidecarDeletedOnSuccessOnly == [][C15_VerifyStep]_vars

C15_Witness ==
    /\ phase = "returned" /\ verdict = "mismatch"
    /\ meta.state = "valid" /\ fexists /\ Len(fdata) # total_size

\* C16: after a failed probe (no sidecar, no other fault) the capabilities are
\* the defaults, total_size is 0, the plan is the single chunk [0, -1], and the
\* download proceeds: it does not raise, and when it returns without stop the
\* chunk is completed and the destination holds the body that was streamed.
C16_ProbeFailureProceeds ==
    (probe = "failed" /\ prep = "fresh" /\ ~fault)
        => /\ capabilities = DefaultCapabilities /\ total_size = 0
           /\ Len(chunks) = 1 /\ chunks[1].start = 0 /\ chunks[1].end = -1
           /\ phase # "raised"
           /\ (phase = "returned" /\ ~is_stopped)
                 => /\ AllCompleted /\ fexists
                    /\ fdata = [o \in 1..resource |-> Byte(url, o - 1)]

\* C17: an engine constructed when the destination already holds the whole
\* resource of its url and no sidecar exists sends no GET for resource data.
C17_NoRefetch ==
    (hadWhole /\ prep = "fresh")
        => \A w \in DOMAIN workers : workers[w].pc \notin {"request", "stream", "write"}

\* C18: whenever supports_range is false after probing (ranges not advertised,
\* or the probe failed) num_threads is 1 and exactly one worker is spawned.
C18_NoRangeOneWorker ==
    (probe # "none" /\ ~capabilities.supports_range)
        => /\ num_threads = 1
           /\ DOMAIN workers # {} => DOMAIN workers = {0}

C19_ClaimStates ==
    /\ \A w \in DOMAIN workers :
         workers[w].chunk # 0 => chunks[workers[w].chunk].thread_id = w
    /\ \A i \in exhausted :
         /\ chunks[i].thread_id # None
         /\ \A w \in DOMAIN workers : workers[w].chunk # i

C19_ClaimStep ==
    Len(chunks') = Len(chunks) =>
        \A i \in 1..Len(chunks) :
            /\ chunks[i].thread_id # None => chunks'[i].thread_id = chunks[i].thread_id
            /\ (chunks[i].thread_id = None /\ chunks'[i].thread_id # None)
                  => /\ ~chunks[i].completed
                     /\ \A j \in 1..(i - 1) :
                          chunks[j].completed \/ chunks[j].thread_id # None
                     /\ workers'[chunks'[i].thread_id].chunk = i
                     /\ \A j \in 1..Len(chunks) :
                          j # i => chunks'[j].thread_id = chunks[j].thread_id

\* C19: under every interleaving each chunk is claimed by at most one worker
\* per session: a claim takes the first chunk in vector order that is not
\* completed and has no claimant and marks it in the same step, a claimant is
\* never cleared or replaced, and a chunk whose retries ran out is not claimed
\* again.
C19_ClaimedOnce == []C19_ClaimStates /\ [][C19_ClaimStep]_vars

C19_Witness ==
    /\ phase = "returned" /\ Len(chunks) = 2 /\ DOMAIN workers = {0, 1}
    /\ chunks[1].thread_id # None /\ chunks[2].thread_id # None
    /\ chunks[1].thread_id # chunks[2].thread_id
    /\ \E i \in exhausted : ~chunks[i].completed

\* C20: every block a worker writes (the server honouring every request)
\* lands at an offset inside [start, end] of the chunk the worker has claimed.
C20_WritesInsideChunk ==
    \A w \in DOMAIN workers :
        (workers[w].pc = "write" /\ ~fault)
            => LET c == chunks[workers[w].chunk] IN
               c.start <= workers[w].fpos /\ workers[w].fpos <= c.end

\* C21: in every state (the server honouring every request) the destination
\* holds the server's bytes at offsets [start, start + downloaded) of every
\* chunk, and downloaded_size is at most the number of resource bytes that
\* are in the destination.
C21_FileHoldsProgress ==
    ~fault =>
        /\ \A i \in 1..Len(chunks) :
             \A o \in chunks[i].start .. (chunks[i].start + chunks[i].downloaded - 1) :
                o < Len(fdata) /\ fdata[o + 1] = Byte(url, o)
        /\ downloaded_size <=
             Cardinality({o \in 0..(Len(fdata) - 1) :
                            o < resource /\ fdata[o + 1] = Byte(url, o)})

\* C22: a block is written at the file offset it has in the resource; stated
\* for a server without range support, which sends the same whole body for
\* every request: also on a retry after partial progress.
C22_RetryWritesInPlace ==
    \A w \in DOMAIN workers :
        (workers[w].pc = "write" /\ ~capabilities.supports_range)
            => workers[w].rpos = workers[w].fpos

C23_Step ==
    /\ downloaded_size' >= downloaded_size
    /\ Len(chunks') >= Len(chunks)
    /\ \A i \in 1..Len(chunks) :
         /\ chunks'[i].downloaded >= chunks[i].downloaded
         /\ chunks[i].completed => chunks'[i].completed

\* C23: within one engine session, on every step, no chunk's downloaded value
\* decreases, no completed flag goes from true to false and downloaded_size
\* does not decrease: across retries, pause, resume and stop.
C23_Monotonic == [][C23_Step]_vars

C23_Witness ==
    \E w \in DOMAIN workers :
        /\ workers[w].pc = "attempt" /\ workers[w].attempt = 1
        /\ chunks[workers[w].chunk].downloaded >= 1
        /\ chunks[workers[w].chunk].retries = 1

C24_SaveStep ==
    \A w \in DOMAIN workers :
        (workers[w].pc = "save" /\ w \in DOMAIN workers' /\ workers'[w].pc = "loop")
            => IF capabilities.supports_resume
               THEN /\ meta' = [state |-> "valid", url |-> url,
                                total_size |-> total_size, chunks |-> chunks]
                    /\ meta'.chunks[workers[w].chunk].completed
                    /\ \A i \in 1..Len(chunks) :
                         \A o \in chunks[i].start ..
                                  (chunks[i].start + meta'.chunks[i].downloaded - 1) :
                            o < Len(fdata) /\ fdata[o + 1] # 0
               ELSE meta' = meta

C25_VerifyStep ==
    /\ verdict' # verdict
          => /\ phase = "running" /\ DOMAIN workers # {} /\ ~is_stopped
             /\ \A w \in DOMAIN workers : workers[w].pc = "done"
    /\ (phase = "running" /\ phase' = "returned" /\ is_stopped)
          => (verdict' = verdict /\ meta' = meta)

\* C25: the verifier runs only after every worker has exited and only if the
\* stop flag is false then; when stop was requested before the workers
\* joined, nothing is verified and the sidecar is left as it is.
C25_VerifyOnlyUnstopped ==
    /\ []((phase = "returned" /\ is_stopped) => verdict = "none")
    /\ [][C25_VerifyStep]_vars

C25_Witness ==
    /\ phase = "returned" /\ is_stopped /\ verdict = "none"
    /\ AllCompleted /\ Len(chunks) = 2 /\ meta.state = "valid"

\* C26: a chunk is reported as failed after all retries only when its retry
\* loop ran out, never when its worker abandoned it because of stop.
C26_StopIsQuiet ==
    reported \subseteq exhausted

\* C27 as stated: while the pause flag is set no worker claims a chunk.
C27_NoClaimWhilePaused ==
    \A w \in DOMAIN workers : workers[w].pcl = 0

C27_PauseStep ==
    \A w \in DOMAIN workers :
        w \in DOMAIN workers' =>
            /\ (workers[w].pc = "pausechk" /\ workers'[w].pc = "claim") => ~is_paused
            /\ (workers[w].pc = "pausechk" /\ workers'[w].pc = "sleeping") => is_paused
            /\ (workers[w].pc = "sleeping" /\ workers'[w].pc # "sleeping")
                  => /\ workers'[w].pc \in (IF is_stopped THEN {"done", "cancelled"}
                                            ELSE {"pausechk", "cancelled"})
                     /\ workers'[w].chunk = workers[w].chunk
                     /\ chunks' = chunks

\* C27, amended: a worker claims a chunk only after it has read the pause
\* flag as clear (line 146), so while the flag stays set a worker claims at
\* most one further chunk; a worker in the pause loop that finds stop set
\* after its sleep exits without claiming; and once the flag is clear (and
\* stays clear, without stop) a waiting worker goes on to the claim.
C27_PauseLoop ==
    /\ [](\A w \in DOMAIN workers : workers[w].pcl <= 1)
    /\ [][C27_PauseStep]_vars
    /\ \A w \in 0..(MaxWorkers - 1) :
         (w \in DOMAIN workers /\ workers[w].pc = "sleeping"
            /\ ~is_paused /\ ~is_stopped)
         ~> (\/ is_paused \/ is_stopped \/ Ended
             \/ w \in DOMAIN workers /\ workers[w].pc \in {"attempt", "done"})

C27_Witness ==
    /\ phase = "running" /\ is_paused
    /\ \E w, v \in DOMAIN workers :
         /\ workers[w].pcl = 1 /\ workers[w].pc = "attempt"
         /\ workers[v].pc = "sleeping"

\* C28: the verifier reports success only if every offset in
\* [0, total_size - 1] of the destination holds the server's byte.
C28_SuccessMeansWhole ==
    (phase = "returned" /\ verdict = "ok")
        => /\ fexists
           /\ \A o \in 0..(total_size - 1) :
                o < Len(fdata) /\ fdata[o + 1] = Byte(url, o)

\* C29: in every state after chunk preparation downloaded_size is the sum of
\* downloaded over the chunk vector, for a fresh plan and after a restore.
C29_TotalIsSum ==
    phase \notin {"new", "initialized"} => downloaded_size = SumDownloaded(chunks)

C29_Witness ==
    /\ prep = "restored" /\ phase = "returned" /\ AllCompleted
    /\ Len(chunks) = 2 /\ downloaded_size = 3

====
